---------------------------- MODULE Spec2Model ----------------------------
(***************************************************************************)
(* A model of tiko/dataset.py: the DataSet hierarchy (construction, the    *)
(* lru_cache'd data() method, the labels property, to_frame), the          *)
(* extract_features helper and the experimental dataset_from_config.       *)
(*                                                                         *)
(* Python objects are records.  A value that may be None, a str, a list,   *)
(* a tuple or something else is the record [t, s, items]: t is the Python  *)
(* type, s the text of a str, items the elements of a list or tuple.       *)
(* Exceptions are the strings "ValueError", "TypeError", ...; "" is a      *)
(* normal return.                                                          *)
(***************************************************************************)
EXTENDS Integers, Sequences, FiniteSets, TLC

VARIABLES
    heap,        \* the DataSet instances constructed so far; the index is the object's identity
    madeBy,      \* history: the call that constructed each instance of the heap
    outcome,     \* what the last call did: its arguments, its exception or its return value
    cache,       \* the lru_cache of DataSet.data, least recently used entry first
    nextRef,     \* identity of the next array object np.array / lil_matrix creates
    returned,    \* history: every (instance, sparse flag, array identity) a data() call returned
    converted,   \* history: every (instance, sparse flag, array identity) a conversion produced
    scipy,       \* whether scipy can be imported in this runtime
    \* dataset_from_config: the caller's objects
    config,      \* the caller's config list; each entry's statistics list is an object of the caller
    lists,       \* the list objects holding features: the caller's user_features, a fresh []
    userArg,     \* "caller" when the caller passes its list as user_features, "None" when it passes none
    defaultStatistics, \* the default_statistics argument
    \* dataset_from_config: the running call
    pc,          \* "idle" between calls, "entry" at the head of the config loop, "stat" in the inner loop
    loc,         \* the locals of the running call
    dfc,         \* what the last call of dataset_from_config did (nothing yet while a call runs)
    calls,       \* how many calls have ended
    hist         \* history: the arguments as they were when the call began, the effective
                 \* lists of its entries, the feature names the first call returned

dsVars == <<heap, madeBy, outcome, cache, nextRef, returned, converted, scipy>>
cfgVars == <<config, lists, userArg, defaultStatistics, pc, loc, dfc, calls, hist>>
vars == <<dsVars, cfgVars>>

-----------------------------------------------------------------------------
(* Bounds of the model *)

MaxRows == 2
MaxCols == 2
MaxInst == 2
MaxArrays == 4
MaxEntries == 2
MaxStats == 2
MaxUser == 1
MaxSegments == 1
MaxCallsCfg == 2

(* functools.lru_cache() with no argument: maxsize defaults to 128 *)
LruMaxsize == 128

Names == {"x", "y"}

BoundedSeq(S, n) == UNION {[1..k -> S] : k \in 0..n}

-----------------------------------------------------------------------------
(* Python values *)

PyNone == [t |-> "None", s |-> "", items |-> <<>>]
PyStr(x) == [t |-> "str", s |-> x, items |-> <<>>]
PyList(xs) == [t |-> "list", s |-> "", items |-> xs]
PyTuple(xs) == [t |-> "tuple", s |-> "", items |-> xs]
PyInt == [t |-> "int", s |-> "", items |-> <<>>]

(* Sequences without a repeated element *)
DistinctSeq(S, n) == {xs \in BoundedSeq(S, n) : \A i, j \in 1..Len(xs) : xs[i] = xs[j] => i = j}

LabelText == <<"a", "b", "c", "d", "e">>

(* Labels: None, one string, lists of 0 .. MaxRows + 1 strings, tuples of   *)
(* 1 .. MaxRows strings, and a value of another type                        *)
LabelValues ==
    {PyNone, PyStr("cat"), PyInt}
        \cup {PyList(SubSeq(LabelText, 1, k)) : k \in 0..(MaxRows + 1)}
        \cup {PyTuple(SubSeq(LabelText, 1, k)) : k \in 1..MaxRows}

NominalValues == {PyNone} \cup {PyList(xs) : xs \in BoundedSeq(BOOLEAN, MaxCols)}

NameLists == DistinctSeq(Names, MaxCols)

(* A feature space argument: a 2-d numpy array, a 1-d numpy array, a plain  *)
(* list of rows, a generator of rows or a FeatureSpace.                    *)
FS(k, r, c) == [kind |-> k, rows |-> r, cols |-> c]

FeatureSpaceArgs ==
    {FS(k, r, c) : k \in {"ndarray", "list", "generator", "FeatureSpace"},
                   r \in 1..MaxRows, c \in 0..MaxCols}
        \cup {FS("ndarray1d", r, 0) : r \in 0..MaxRows}


-----------------------------------------------------------------------------
(* Results of a call: err is the exception raised ("" for none) *)

Raise(e, inst) == [err |-> e, inst |-> inst]
Return(inst) == [err |-> "", inst |-> inst]

NoLabels == [t |-> "unset", s |-> "", items |-> <<>>]

NoInst ==
    [cls |-> "none", feature_space |-> FS("none", 0, 0), feature_names |-> <<>>,
     nominal_features |-> <<>>, labels |-> NoLabels]

(* Whether the object has a shape attribute: numpy arrays have one, plain   *)
(* lists and generators have none.  A FeatureSpace declares its shape.      *)
FeatureSpaceHasShape == TRUE

HasShape(fs) ==
    \/ fs.kind \in {"ndarray", "ndarray1d"}
    \/ fs.kind = "FeatureSpace" /\ FeatureSpaceHasShape

Shape(fs) == IF fs.kind = "ndarray1d" THEN <<fs.rows>> ELSE <<fs.rows, fs.cols>>

(* FeatureSpace(features, segments): one row per segment, one column per    *)
(* feature computation.                                                    *)
FeatureSpace(nfeatures, nsegments) == FS("FeatureSpace", nsegments, nfeatures)

(* list(feature_space) *)
ListOf(fs) == FS("list", fs.rows, fs.cols)

(* len(self.feature_space) *)
PyLen(fs) == fs.rows

(* np.array(rows): no rows give the 1-d array of shape (0,) *)
NpArray(fs) ==
    IF fs.kind \in {"ndarray", "ndarray1d"} THEN fs
    ELSE IF fs.rows = 0 THEN FS("ndarray1d", 0, 0)
    ELSE FS("ndarray", fs.rows, fs.cols)

(* DataSet.__init__ *)
DataSetInit(cls, feature_space, feature_names, nominal_features, labels) ==
    LET stored == IF feature_space.kind \in {"FeatureSpace", "generator"}
                  THEN ListOf(feature_space)
                  ELSE feature_space
    IN  IF ~HasShape(feature_space) THEN Raise("AttributeError", NoInst)
        ELSE IF Len(Shape(feature_space)) < 2 THEN Raise("IndexError", NoInst)
        ELSE LET feature_count == Shape(feature_space)[2]
             IN  IF Len(feature_names) # feature_count
                 THEN Raise("ValueError", NoInst)
                 ELSE Return([cls |-> cls,
                              feature_space |-> stored,
                              feature_names |-> feature_names,
                              nominal_features |->
                                  IF nominal_features = PyNone
                                  THEN [i \in 1..feature_count |-> FALSE]
                                  ELSE nominal_features.items,
                              labels |-> labels])

(* UnlabeledDataSet.__init__ *)
UnlabeledDataSet(feature_space, feature_names, nominal_features) ==
    DataSetInit("UnlabeledDataSet", feature_space, feature_names, nominal_features, NoLabels)

(* LabeledDataSet.__init__: _labels is stored after the base constructor    *)
(* returns, unchecked.                                                      *)
LabeledDataSet(feature_space, feature_names, labels, nominal_features) ==
    DataSetInit("LabeledDataSet", feature_space, feature_names, nominal_features, labels)

(* The mutant of LabeledLabels: the length of a list is not compared *)
LabeledLabelsUnchecked(self) ==
    IF self.labels.t = "str"
    THEN [err |-> "", value |-> [i \in 1..PyLen(self.feature_space) |-> self.labels.s]]
    ELSE IF self.labels.t = "list"
    THEN [err |-> "", value |-> self.labels.items]
    ELSE [err |-> "TypeError", value |-> <<>>]

(* LabeledDataSet.labels *)
LabeledLabels(self) ==
    IF self.labels.t = "str"
    THEN [err |-> "", value |-> [i \in 1..PyLen(self.feature_space) |-> self.labels.s]]
    ELSE IF self.labels.t = "list"
    THEN IF Len(self.labels.items) # PyLen(self.feature_space)
         THEN [err |-> "ValueError", value |-> <<>>]
         ELSE [err |-> "", value |-> self.labels.items]
    ELSE [err |-> "TypeError", value |-> <<>>]

-----------------------------------------------------------------------------
(* DataSet.data and its lru_cache *)

(* functools._make_key: the key is built from the positional arguments and  *)
(* the keyword arguments as the caller wrote them, so data(), data(False)   *)
(* and data(sparse=False) have three different keys.                        *)
MakeKey(self, form, sparse) == [self |-> self, form |-> form, sparse |-> sparse]

CallForms == {"omitted", "positional", "keyword"}

(* The body of DataSet.data: the conversion itself *)
DataBody(sparse, hasScipy) ==
    IF ~sparse THEN ""
    ELSE IF ~hasScipy THEN "ImportError"
    ELSE ""

(* The lru_cache wrapper around data: a hit moves the entry to the most     *)
(* recently used end; a miss runs the body and stores the result, dropping  *)
(* the least recently used entry of a full cache; an exception stores       *)
(* nothing.                                                                 *)
LruCache(c, key, hasScipy, ref) ==
    LET hits == {i \in 1..Len(c) : c[i].key = key}
    IN  IF hits # {}
        THEN LET i == CHOOSE j \in hits : TRUE
             IN  [err |-> "", ref |-> c[i].ref, fresh |-> FALSE,
                  cache |-> Append(SubSeq(c, 1, i - 1) \o SubSeq(c, i + 1, Len(c)), c[i])]
        ELSE LET e == DataBody(key.sparse, hasScipy)
             IN  IF e # ""
                 THEN [err |-> e, ref |-> 0, fresh |-> FALSE, cache |-> c]
                 ELSE [err |-> "", ref |-> ref, fresh |-> TRUE,
                       cache |-> Append(IF Len(c) >= LruMaxsize THEN Tail(c) ELSE c,
                                        [key |-> key, ref |-> ref])]

-----------------------------------------------------------------------------
(* to_frame and extract_features *)

(* UnlabeledDataSet.to_frame: the columns of the DataFrame *)
UnlabeledToFrame(self) == [err |-> "", columns |-> self.feature_names]

(* LabeledDataSet.to_frame: df.insert(0, 'labels', self.labels) *)
LabeledToFrame(self, include_labels) ==
    IF ~include_labels THEN [err |-> "", columns |-> self.feature_names]
    ELSE LET lab == LabeledLabels(self)
         IN  IF lab.err # "" THEN [err |-> lab.err, columns |-> <<>>]
             ELSE [err |-> "", columns |-> <<"labels">> \o self.feature_names]

(* The mutant of extract_features: any falsy labels give an unlabeled set *)
ExtractFeaturesFalsy(nfeatures, feature_names, nsegments, nominal_features, labels) ==
    LET feature_space == FeatureSpace(nfeatures, nsegments)
    IN  IF labels = PyNone \/ (labels.t \in {"list", "tuple"} /\ labels.items = <<>>)
        THEN UnlabeledDataSet(feature_space, feature_names, nominal_features)
        ELSE LabeledDataSet(feature_space, feature_names, labels, nominal_features)

(* extract_features *)
ExtractFeaturesFn(nfeatures, feature_names, nsegments, nominal_features, labels) ==
    LET feature_space == FeatureSpace(nfeatures, nsegments)
    IN  IF labels = PyNone
        THEN UnlabeledDataSet(feature_space, feature_names, nominal_features)
        ELSE LabeledDataSet(feature_space, feature_names, labels, nominal_features)

-----------------------------------------------------------------------------
(* dataset_from_config: values *)

Opt(has, v) == [has |-> has, v |-> v]

(* dict.get(key, default) *)
Get(opt, default) == IF opt.has THEN opt.v ELSE default

SetOf(xs) == {xs[k] : k \in 1..Len(xs)}

Perms(S) == {p \in [1..Cardinality(S) -> S] : \A a, b \in 1..Cardinality(S) : p[a] = p[b] => a = b}

Stats == {"mean", "std"}

SignalNames == <<"s1", "s2", "s3", "s4">>

(* The keyword arguments **feature_factory: a custom factory for "std" *)
feature_factory == {"std"}

(* What one config entry may hold besides its signal_name: its statistics   *)
(* list or none, apply_default_statistics or none, and either both          *)
(* display_name and is_nominal or neither.                                  *)
EntryShapes ==
    {[signal_name |-> "",
      display_name |-> IF decorated THEN Opt(TRUE, "d") ELSE Opt(FALSE, ""),
      statistics |-> st,
      apply_default_statistics |-> a, is_nominal |-> Opt(decorated, decorated)] :
        st \in {Opt(FALSE, <<>>)} \cup {Opt(TRUE, xs) : xs \in DistinctSeq(Stats, MaxStats)},
        a \in {Opt(FALSE, TRUE), Opt(TRUE, TRUE), Opt(TRUE, FALSE)},
        decorated \in BOOLEAN}

(* The entries used where the names of the data set are followed: no        *)
(* statistics key or one explicit statistic; apply_default_statistics       *)
(* absent or false.                                                         *)
NamedShapes ==
    {e \in EntryShapes :
        /\ e.statistics \in {Opt(FALSE, <<>>), Opt(TRUE, <<"mean">>)}
        /\ e.apply_default_statistics \in {Opt(FALSE, TRUE), Opt(TRUE, FALSE)}}

(* The config lists of up to MaxEntries entries; entry k reads signal k *)
ConfigsOf(shapes) ==
    {[k \in 1..Len(sh) |-> [sh[k] EXCEPT !.signal_name = SignalNames[k]]] :
        sh \in BoundedSeq(shapes, MaxEntries)}

DefaultStatisticsArgs == {PyNone} \cup {PyList(xs) : xs \in DistinctSeq(Stats, MaxStats)}

Feature(name, is_nominal, signal, statistic, custom) ==
    [name |-> name, is_nominal |-> is_nominal, signal |-> signal,
     statistic |-> statistic, custom |-> custom]

(* The feature computations the caller built itself *)
UserFeatureList == <<Feature("u1", TRUE, "s0", "max", FALSE), Feature("u2", FALSE, "s0", "min", FALSE)>>

(* create_feature(signal, statistic or factory) *)
create_feature(signal, statistic, custom) == Feature(statistic, FALSE, signal, statistic, custom)

(* The mutant of BindFeatures: features = list(user_features), a copy *)
CopyFeatures(user_features) == "copy"

(* features = user_features: the same list object under a second name *)
BindFeatures(user_features) == user_features

(* statistics += list(set(default_statistics) - set(statistics)): the       *)
(* iteration order of a set of strings is not determined, so every order    *)
(* of the missing defaults is possible.                                     *)
EffectiveStatistics(statistics, default_statistics) ==
    {statistics \o p : p \in Perms(SetOf(default_statistics) \ SetOf(statistics))}

(* The mutant of JoinName: statistic and display name swapped *)
JoinNameSwapped(display_name, statistic) == statistic \o "_" \o display_name

(* '_'.join([display_name, statistic]) *)
JoinName(display_name, statistic) == display_name \o "_" \o statistic

NoLoc ==
    [user_features |-> "", features |-> "", feature_names |-> <<>>, nominal_features |-> <<>>,
     i |-> 0, j |-> 0, statistics |-> <<>>]

NoDfc ==
    [err |-> "", where |-> "", dataset |-> NoInst, feature_space |-> FS("none", 0, 0)]

NoHist ==
    [user_features |-> <<>>, config |-> <<>>, effective |-> <<>>, firstNames |-> Opt(FALSE, <<>>)]

-----------------------------------------------------------------------------
(* The calls a program makes *)

NoArgs ==
    [feature_space |-> FS("none", 0, 0), feature_names |-> <<>>, nominal_features |-> PyNone,
     labels |-> PyNone, include_labels |-> FALSE, form |-> "", sparse |-> FALSE]

Outcome(op, err, self, args, value, ref) ==
    [op |-> op, err |-> err, self |-> self, args |-> args, value |-> value, ref |-> ref]

InitDataSet ==
    /\ heap = <<>>
    /\ madeBy = <<>>
    /\ outcome = Outcome("none", "", 0, NoArgs, <<>>, 0)
    /\ cache = <<>>
    /\ nextRef = 1
    /\ returned = {}
    /\ converted = {}
    /\ scipy \in BOOLEAN

(* A constructor call: the instance exists only if the call returns *)
Construct(op, r, args) ==
    /\ heap' = IF r.err = "" THEN Append(heap, r.inst) ELSE heap
    /\ madeBy' = IF r.err = "" THEN Append(madeBy, op) ELSE madeBy
    /\ outcome' = Outcome(op, r.err, IF r.err = "" THEN Len(heap) + 1 ELSE 0, args, <<>>, 0)
    /\ UNCHANGED <<cache, nextRef, returned, converted, scipy, cfgVars>>

NewUnlabeledDataSet(fs, names, nominal) ==
    Construct("UnlabeledDataSet", UnlabeledDataSet(fs, names, nominal),
              [NoArgs EXCEPT !.feature_space = fs, !.feature_names = names,
                             !.nominal_features = nominal])

NewLabeledDataSet(fs, names, labels, nominal) ==
    Construct("LabeledDataSet", LabeledDataSet(fs, names, labels, nominal),
              [NoArgs EXCEPT !.feature_space = fs, !.feature_names = names,
                             !.nominal_features = nominal, !.labels = labels])

ExtractFeatures(nfeatures, names, nsegments, nominal, labels) ==
    Construct("extract_features",
              ExtractFeaturesFn(nfeatures, names, nsegments, nominal, labels),
              [NoArgs EXCEPT !.feature_space = FeatureSpace(nfeatures, nsegments),
                             !.feature_names = names,
                             !.nominal_features = nominal, !.labels = labels])

(* A read of d.labels *)
ReadLabels(d) ==
    /\ heap[d].cls = "LabeledDataSet"
    /\ LET r == LabeledLabels(heap[d])
       IN  outcome' = Outcome("labels", r.err, d, NoArgs, r.value, 0)
    /\ UNCHANGED <<heap, madeBy, cache, nextRef, returned, converted, scipy, cfgVars>>

(* The effect of one call of the cached method on the cache and the history *)
CallData(d, r, sparse) ==
    /\ cache' = r.cache
    /\ nextRef' = IF r.fresh THEN nextRef + 1 ELSE nextRef
    /\ returned' = IF r.err = ""
                   THEN returned \cup {[self |-> d, sparse |-> sparse, ref |-> r.ref]}
                   ELSE returned
    /\ converted' = IF r.fresh
                    THEN converted \cup {[self |-> d, sparse |-> sparse, ref |-> r.ref]}
                    ELSE converted

(* d.data(), d.data(flag) or d.data(sparse=flag) *)
Data(d, form, sparse) ==
    /\ nextRef <= MaxArrays
    /\ form = "omitted" => ~sparse
    /\ LET r == LruCache(cache, MakeKey(d, form, sparse), scipy, nextRef)
       IN  /\ CallData(d, r, sparse)
           /\ outcome' = Outcome("data", r.err, d,
                                 [NoArgs EXCEPT !.form = form, !.sparse = sparse], <<>>, r.ref)
    /\ UNCHANGED <<heap, madeBy, scipy, cfgVars>>

(* d.to_frame(): self.data(sparse=False) goes through the cache *)
ToFrame(d, include_labels) ==
    /\ heap[d].cls = "UnlabeledDataSet" => ~include_labels
    /\ LET r == LruCache(cache, MakeKey(d, "keyword", FALSE), scipy, nextRef)
           f == IF heap[d].cls = "UnlabeledDataSet"
                THEN UnlabeledToFrame(heap[d])
                ELSE LabeledToFrame(heap[d], include_labels)
       IN  /\ CallData(d, r, FALSE)
           /\ outcome' = Outcome("to_frame", f.err, d,
                                 [NoArgs EXCEPT !.include_labels = include_labels],
                                 f.columns, r.ref)
    /\ UNCHANGED <<heap, madeBy, scipy, cfgVars>>

-----------------------------------------------------------------------------
(* dataset_from_config, one step at a time *)

(* The call ends: by an exception or by returning the data set *)
EndCall(err, where, dataset, feature_space) ==
    /\ pc' = "idle"
    /\ loc' = NoLoc
    /\ calls' = calls + 1
    /\ dfc' = [err |-> err, where |-> where, dataset |-> dataset, feature_space |-> feature_space]

(* Lines 134-148: the warning, the check of data, the defaults of the       *)
(* arguments and the seeding of the three running lists.                    *)
DfcBegin(dataIndexable) ==
    /\ pc = "idle"
    /\ calls < MaxCallsCfg
    /\ IF ~dataIndexable
       THEN /\ EndCall("TypeError", "data", NoInst, FS("none", 0, 0))
            /\ UNCHANGED <<lists, hist>>
       ELSE LET user_features == IF userArg = "None" THEN "fresh" ELSE "caller"
                features == BindFeatures(user_features)
                seeded == IF userArg = "None" THEN <<>> ELSE lists["caller"]
                fresh == [lists EXCEPT !["fresh"] = <<>>]
            IN  /\ lists' = IF features = user_features THEN fresh
                            ELSE [fresh EXCEPT ![features] = seeded]
                /\ loc' = [user_features |-> user_features, features |-> features,
                           feature_names |-> [k \in 1..Len(seeded) |-> seeded[k].name],
                           nominal_features |-> [k \in 1..Len(seeded) |-> seeded[k].is_nominal],
                           i |-> 1, j |-> 0, statistics |-> <<>>]
                /\ hist' = [hist EXCEPT !.user_features = seeded, !.config = config,
                                        !.effective = <<>>]
                /\ pc' = "entry"
                /\ dfc' = NoDfc
                /\ UNCHANGED calls
    /\ UNCHANGED <<config, userArg, defaultStatistics, dsVars>>

(* The inner loop starts on the list, or the outer loop goes on when the    *)
(* list is empty.                                                           *)
StartStatistics(statistics) ==
    /\ hist' = [hist EXCEPT !.effective = Append(@, statistics)]
    /\ IF statistics = <<>>
       THEN /\ loc' = [loc EXCEPT !.i = @ + 1, !.statistics = <<>>]
            /\ pc' = "entry"
       ELSE /\ loc' = [loc EXCEPT !.j = 1, !.statistics = statistics]
            /\ pc' = "stat"
    /\ UNCHANGED <<dfc, calls>>

(* Lines 150-161: one config entry is read and its statistics list settled. *)
(* settings.get('statistics', []) is the entry's own list when the key is   *)
(* there, so += extends the caller's list in place.  data holds every      *)
(* signal the config names, so data[signal_name] returns.                   *)
DfcEntry ==
    /\ pc = "entry"
    /\ loc.i <= Len(config)
    /\ LET settings == config[loc.i]
           statistics == Get(settings.statistics, <<>>)
           apply_default_statistics == Get(settings.apply_default_statistics, TRUE)
       IN  \/ /\ apply_default_statistics
              /\ defaultStatistics = PyNone
              /\ EndCall("TypeError", "default_statistics", NoInst, FS("none", 0, 0))
              /\ UNCHANGED <<config, hist>>
           \/ /\ apply_default_statistics
              /\ defaultStatistics # PyNone
              /\ \E extended \in EffectiveStatistics(statistics, defaultStatistics.items) :
                    /\ config' = IF settings.statistics.has
                                 THEN [config EXCEPT ![loc.i].statistics.v = extended]
                                 ELSE config
                    /\ StartStatistics(extended)
           \/ /\ ~apply_default_statistics
              /\ statistics = <<>>
              /\ EndCall("ValueError", "statistics", NoInst, FS("none", 0, 0))
              /\ UNCHANGED <<config, hist>>
           \/ /\ ~apply_default_statistics
              /\ statistics # <<>>
              /\ UNCHANGED config
              /\ StartStatistics(statistics)
    /\ UNCHANGED <<lists, userArg, defaultStatistics, dsVars>>

(* Lines 163-171: one statistic of the entry: the feature is created and    *)
(* the three lists each get one element.                                    *)
DfcStat ==
    /\ pc = "stat"
    /\ LET settings == config[loc.i]
           signal_name == settings.signal_name
           is_nominal == Get(settings.is_nominal, FALSE)
           display_name == Get(settings.display_name, signal_name)
           statistic == loc.statistics[loc.j]
           feature == create_feature(signal_name, statistic, statistic \in feature_factory)
           appended == [loc EXCEPT !.feature_names = Append(@, JoinName(display_name, statistic)),
                                   !.nominal_features = Append(@, is_nominal)]
       IN  /\ lists' = [lists EXCEPT ![loc.features] = Append(@, feature)]
           /\ IF loc.j < Len(loc.statistics)
              THEN /\ loc' = [appended EXCEPT !.j = @ + 1]
                   /\ pc' = "stat"
              ELSE /\ loc' = [appended EXCEPT !.i = @ + 1, !.j = 0, !.statistics = <<>>]
                   /\ pc' = "entry"
    /\ UNCHANGED <<config, userArg, defaultStatistics, dfc, calls, hist, dsVars>>

(* Lines 173-184: the FeatureSpace is built from user_features, turned      *)
(* into an array, and wrapped in the data set that is returned.             *)
DfcFinish(segments, labels) ==
    /\ pc = "entry"
    /\ loc.i > Len(config)
    /\ LET rows == IF segments.has THEN segments.v ELSE 1
           feature_space == FeatureSpace(Len(lists[loc.user_features]), rows)
           feature_space_array == NpArray(ListOf(feature_space))
           r == IF labels = PyNone
                THEN UnlabeledDataSet(feature_space_array, loc.feature_names,
                                      PyList(loc.nominal_features))
                ELSE LabeledDataSet(feature_space_array, loc.feature_names, labels,
                                    PyList(loc.nominal_features))
       IN  /\ EndCall(r.err, IF r.err = "" THEN "" ELSE "constructor", r.inst, feature_space)
           /\ hist' = IF r.err = "" /\ calls = 0
                      THEN [hist EXCEPT !.firstNames = Opt(TRUE, r.inst.feature_names)]
                      ELSE hist
    /\ UNCHANGED <<config, lists, userArg, defaultStatistics, dsVars>>

-----------------------------------------------------------------------------
(* The specifications *)

(* No call of dataset_from_config is made *)
InitConfigIdle ==
    /\ config = <<>>
    /\ lists = [o \in {"caller", "fresh", "copy"} |-> <<>>]
    /\ userArg = "None"
    /\ defaultStatistics = PyNone
    /\ pc = "idle"
    /\ loc = NoLoc
    /\ dfc = NoDfc
    /\ calls = 0
    /\ hist = NoHist

(* The caller's config, user_features and default_statistics: the same      *)
(* objects are passed to every call.                                        *)
InitArguments(configs, defaults) ==
    /\ config \in configs
    /\ \E k \in 0..MaxUser :
          lists = [o \in {"caller", "fresh", "copy"} |->
                      IF o = "caller" THEN SubSeq(UserFeatureList, 1, k) ELSE <<>>]
    /\ userArg \in {"None", "caller"}
    /\ userArg = "None" => lists["caller"] = <<>>
    /\ defaultStatistics \in defaults
    /\ pc = "idle"
    /\ loc = NoLoc
    /\ dfc = NoDfc
    /\ calls = 0
    /\ hist = NoHist

Init == InitDataSet /\ InitConfigIdle

(* One data set, built from any arguments, then read *)
Next ==
    \/ /\ outcome.op = "none"
       /\ \E fs \in FeatureSpaceArgs, names \in NameLists, nominal \in NominalValues :
             NewUnlabeledDataSet(fs, names, nominal)
    \/ /\ outcome.op = "none"
       /\ \E fs \in FeatureSpaceArgs, names \in NameLists, nominal \in NominalValues,
             labels \in LabelValues :
             NewLabeledDataSet(fs, names, labels, nominal)
    \/ /\ outcome.op = "none"
       /\ \E n \in 0..MaxCols, names \in NameLists, m \in 1..MaxRows,
             nominal \in NominalValues, labels \in LabelValues :
             ExtractFeatures(n, names, m, nominal, labels)
    \/ \E d \in 1..Len(heap) : ReadLabels(d)
    \/ \E d \in 1..Len(heap), include_labels \in BOOLEAN : ToFrame(d, include_labels)

Spec == Init /\ [][Next]_vars

(* Several small data sets sharing the one cache of DataSet.data *)
NextCache ==
    \/ \E r \in 1..MaxRows :
          Len(heap) < MaxInst /\ NewUnlabeledDataSet(FS("ndarray", r, 1), <<"x">>, PyNone)
    \/ \E d \in 1..Len(heap), form \in CallForms, sparse \in BOOLEAN : Data(d, form, sparse)

SpecCache == Init /\ [][NextCache]_vars


(* Calls of dataset_from_config on the same arguments *)
InitCfg ==
    InitDataSet /\ scipy /\ InitArguments(ConfigsOf(EntryShapes), DefaultStatisticsArgs)

NextCfg ==
    \/ \E dataIndexable \in BOOLEAN : DfcBegin(dataIndexable)
    \/ DfcEntry
    \/ DfcStat
    \/ \E segments \in {Opt(FALSE, 0)} \cup {Opt(TRUE, k) : k \in 0..MaxSegments},
          labels \in {PyNone, PyStr("cat")} :
          DfcFinish(segments, labels)

SpecCfg == InitCfg /\ [][NextCfg]_vars

(* The same calls on the configs of NamedShapes *)
InitNames ==
    InitDataSet /\ scipy
        /\ InitArguments(ConfigsOf(NamedShapes),
                         {PyNone, PyList(<<"std">>), PyList(<<"mean", "std">>)})

SpecNames == InitNames /\ [][NextCfg]_vars

-----------------------------------------------------------------------------
(* Properties of the DataSet hierarchy *)

ConstructorCalls == {"UnlabeledDataSet", "LabeledDataSet", "extract_features"}

Rectangular == {"ndarray", "list", "generator", "FeatureSpace"}

(* C1: for every feature space with rows of columns (an array-like stored   *)
(* by reference, or a generator or FeatureSpace consumed at construction)   *)
(* construction succeeds when len(feature_names) equals the column count,   *)
(* and the instance then has that many names; it raises ValueError and      *)
(* yields no instance when the two differ.                                  *)
C1_ConstructionValidatesNames ==
    (outcome.op \in ConstructorCalls /\ outcome.args.feature_space.kind \in Rectangular) =>
        IF Len(outcome.args.feature_names) = outcome.args.feature_space.cols
        THEN /\ outcome.err = ""
             /\ outcome.self \in 1..Len(heap)
             /\ Len(heap[outcome.self].feature_names) = outcome.args.feature_space.cols
        ELSE /\ outcome.err = "ValueError"
             /\ outcome.self = 0

(* C2: every instance a construction returns has as many nominal flags as   *)
(* feature names; a supplied nominal_features of another length returns no  *)
(* instance.                                                                *)
C2_NominalMatchesNames ==
    /\ \A d \in 1..Len(heap) :
          Len(heap[d].nominal_features) = Len(heap[d].feature_names)
    /\ (/\ outcome.op \in ConstructorCalls
        /\ outcome.args.nominal_features.t = "list"
        /\ Len(outcome.args.nominal_features.items) # Len(outcome.args.feature_names))
          => outcome.err # ""

(* C3: any two data() calls on one instance with the same sparse flag,      *)
(* however the flag is written, return the same object; the conversion for  *)
(* an instance and a flag runs at most once; an instance has at most one    *)
(* cached array per flag.                                                   *)
C3_DataReferenceStable ==
    /\ \A a, b \in returned : (a.self = b.self /\ a.sparse = b.sparse) => a.ref = b.ref
    /\ \A a, b \in converted : (a.self = b.self /\ a.sparse = b.sparse) => a.ref = b.ref
    /\ \A d \in 1..Len(heap), flag \in BOOLEAN :
          Cardinality({i \in 1..Len(cache) :
                          cache[i].key.self = d /\ cache[i].key.sparse = flag}) <= 1

LabelsReadable(self) ==
    \/ self.labels.t = "str"
    \/ self.labels.t = "list" /\ Len(self.labels.items) = self.feature_space.rows

(* C5: extract_features returns an UnlabeledDataSet exactly when labels is  *)
(* None and a LabeledDataSet otherwise; a frame of an unlabeled set has the *)
(* feature names as its columns, a frame of a labeled set has 'labels'      *)
(* first and then the feature names, or the feature names alone when        *)
(* include_labels is false.  to_frame fails only when the labels cannot be  *)
(* read.                                                                    *)
C5_ExtractAndFrame ==
    /\ (outcome.op = "extract_features" /\ outcome.err = "") =>
          heap[outcome.self].cls =
              IF outcome.args.labels = PyNone THEN "UnlabeledDataSet" ELSE "LabeledDataSet"
    /\ outcome.op = "to_frame" =>
          LET self == heap[outcome.self]
              withLabels == self.cls = "LabeledDataSet" /\ outcome.args.include_labels
          IN  /\ outcome.err = "" <=> (~withLabels \/ LabelsReadable(self))
              /\ outcome.err = "" =>
                    outcome.value = IF withLabels
                                    THEN <<"labels">> \o self.feature_names
                                    ELSE self.feature_names

(* C5 witness: the frame of extract_features(..., labels="cat") *)
C5_Witness ==
    /\ outcome.op = "to_frame"
    /\ outcome.err = ""
    /\ madeBy[outcome.self] = "extract_features"
    /\ heap[outcome.self].labels = PyStr("cat")
    /\ outcome.value = <<"labels", "x", "y">>

-----------------------------------------------------------------------------
(* Properties of dataset_from_config *)

(* A call has ended and the last call got past the check of data *)
CallEnded == pc = "idle" /\ calls > 0 /\ dfc.where # "data"

(* The FeatureSpace of the last call was built *)
SpaceBuilt == CallEnded /\ dfc.where \in {"", "constructor"}

(* The elements of defaults that are not among explicit, in their order *)
MissingInOrder(defaults, explicit) ==
    LET Missing(x) == x \notin SetOf(explicit) IN SelectSeq(defaults, Missing)

DefaultsGiven == IF defaultStatistics = PyNone THEN <<>> ELSE defaultStatistics.items

(* C6: for an entry with apply_default_statistics true the effective list   *)
(* is its explicit statistics followed by the default statistics that are   *)
(* not among them, in the order of default_statistics; an omitted           *)
(* default_statistics adds nothing and never stops the entry.               *)
C6_EffectiveStatistics ==
    /\ \A k \in 1..Len(hist.effective) :
          LET explicit == Get(hist.config[k].statistics, <<>>)
          IN  Get(hist.config[k].apply_default_statistics, TRUE) =>
                  hist.effective[k] = explicit \o MissingInOrder(DefaultsGiven, explicit)
    /\ dfc.where # "default_statistics"

NoStatistics(entry) ==
    /\ ~Get(entry.apply_default_statistics, TRUE)
    /\ Get(entry.statistics, <<>>) = <<>>

(* C7: a call whose config holds an entry with apply_default_statistics     *)
(* false and no statistics ends with ValueError and no data set, whatever   *)
(* the other entries and arguments are; and the ValueError for missing      *)
(* statistics is raised only at such an entry.                              *)
C7_NoStatisticsIsValueError ==
    CallEnded =>
        /\ (\E k \in 1..Len(hist.config) : NoStatistics(hist.config[k])) =>
              dfc.err = "ValueError" /\ dfc.dataset = NoInst
        /\ dfc.where = "statistics" =>
              NoStatistics(hist.config[Len(hist.effective) + 1])

DisplayName(entry) == Get(entry.display_name, entry.signal_name)

RECURSIVE ConfigNames(_, _)
ConfigNames(cfg, effective) ==
    IF cfg = <<>> \/ effective = <<>> THEN <<>>
    ELSE [j \in 1..Len(effective[1]) |-> DisplayName(cfg[1]) \o "_" \o effective[1][j]]
            \o ConfigNames(Tail(cfg), Tail(effective))

RECURSIVE ConfigNominal(_, _)
ConfigNominal(cfg, effective) ==
    IF cfg = <<>> \/ effective = <<>> THEN <<>>
    ELSE [j \in 1..Len(effective[1]) |-> Get(cfg[1].is_nominal, FALSE)]
            \o ConfigNominal(Tail(cfg), Tail(effective))

(* C8: the three running lists have the same length after every step, and   *)
(* the data set returned has the names of the user features in order, then  *)
(* '<display_name>_<statistic>' for each entry in order and each statistic  *)
(* of its effective list in order, with the nominal flags at the same       *)
(* positions: each user feature's is_nominal, then the entry's is_nominal.  *)
C8_NamesAndFlags ==
    /\ pc \in {"entry", "stat"} =>
          /\ Len(lists[loc.features]) = Len(loc.feature_names)
          /\ Len(loc.nominal_features) = Len(loc.feature_names)
    /\ (CallEnded /\ dfc.err = "") =>
          /\ dfc.dataset.feature_names =
                [k \in 1..Len(hist.user_features) |-> hist.user_features[k].name]
                    \o ConfigNames(hist.config, hist.effective)
          /\ dfc.dataset.nominal_features =
                [k \in 1..Len(hist.user_features) |-> hist.user_features[k].is_nominal]
                    \o ConfigNominal(hist.config, hist.effective)

(* C8 witness: one user feature, an entry with defaults for display_name    *)
(* and is_nominal, an entry with both given.                                *)
C8_Witness ==
    /\ CallEnded
    /\ dfc.err = ""
    /\ dfc.dataset.feature_names = <<"u1", "s1_mean", "d_std">>
    /\ dfc.dataset.nominal_features = <<TRUE, FALSE, TRUE>>

RECURSIVE TotalLen(_)
TotalLen(xss) == IF xss = <<>> THEN 0 ELSE Len(xss[1]) + TotalLen(Tail(xss))

(* C9 as stated: the FeatureSpace has as many columns as the caller         *)
(* supplied user features; the features of the config add no column.        *)
C9_OnlyUserFeatureColumns ==
    SpaceBuilt => dfc.feature_space.cols = Len(hist.user_features)

(* C9 amended: the FeatureSpace is built from the user_features list, which *)
(* is the running features list itself, so it has one column for each user  *)
(* feature of the caller and one for each feature of the config: as many    *)
(* as len(feature_names), and the constructor never rejects the names.      *)
C9_AllFeatureColumns ==
    SpaceBuilt =>
        /\ dfc.feature_space.cols = Len(hist.user_features) + TotalLen(hist.effective)
        /\ dfc.err # "ValueError"
        /\ dfc.err = "" => /\ dfc.dataset.feature_space.cols = Len(dfc.dataset.feature_names)
                           /\ dfc.dataset.feature_space.cols = dfc.feature_space.cols

(* C9 witness: a data set with a column of the caller and columns of the config *)
C9_Witness ==
    /\ SpaceBuilt
    /\ dfc.err = ""
    /\ Len(hist.user_features) = 1
    /\ dfc.dataset.feature_space.cols = 3

(* C10: a call leaves the caller's user_features list and every entry's     *)
(* statistics list as they were, so calls with the same objects give the    *)
(* same feature_names.                                                      *)
C10_ArgumentsUnchanged ==
    CallEnded =>
        /\ userArg = "caller" => lists["caller"] = hist.user_features
        /\ \A k \in 1..Len(config) : config[k].statistics = hist.config[k].statistics
        /\ (dfc.err = "" /\ hist.firstNames.has) =>
              dfc.dataset.feature_names = hist.firstNames.v

=============================================================================
